---- MODULE Spec2Model ----
(***************************************************************************)
(* A model of the greenlight JSON API: the validator package, the request  *)
(* helpers (readJSON, writeJSON, readString, readCSV, readInt) and the     *)
(* movie handlers.                                                         *)
(*                                                                         *)
(* Go strings that the code inspects character by character (query string  *)
(* values) are sequences of one-character strings; strings the code only   *)
(* stores or compares (map keys, messages) are TLA+ strings.               *)
(***************************************************************************)
EXTENDS Integers, Sequences, FiniteSets, TLC

VARIABLES
    pc,         \* position of the request under way: "ready" or "done"
    Errors,     \* validator.Validator.Errors, a Go map[string]string
    history,    \* the calls made on the Validator so far (ghost)
    request,    \* the inputs of the operation under way
    response,   \* the http.ResponseWriter of the request
    models,     \* the calls made on app.models.Movies so far (ghost)
    result,     \* what the operation under way returned
    logger      \* the jsonlog.Logger and the goroutines calling it

vars == <<pc, Errors, history, request, response, models, result, logger>>

(***************************************************************************)
(* Bounds of the model.                                                    *)
(***************************************************************************)
MaxCalls == 4       \* calls made on one Validator

(***************************************************************************)
(* package validator                                                       *)
(***************************************************************************)

\* A Go map is a function whose domain is the set of keys present.
EmptyMap == << >>

\* validator.New(): a Validator with an empty errors map.
New == EmptyMap

\* A faulty Valid that tolerates one entry.
ValidUpToOne(errs) == Cardinality(DOMAIN errs) <= 1

\* Valid(): len(validator.Errors) == 0.
Valid(errs) == Cardinality(DOMAIN errs) = 0

\* A faulty AddError that overwrites the entry of a key it already holds.
AddErrorOverwrite(errs, key, message) ==
    [k \in (DOMAIN errs) \cup {key} |-> IF k = key THEN message ELSE errs[k]]

\* AddError(): add the message unless an entry exists for the key.
AddError(errs, key, message) ==
    IF key \notin DOMAIN errs
    THEN [k \in (DOMAIN errs) \cup {key} |-> IF k = key THEN message ELSE errs[k]]
    ELSE errs

\* Check(): add the message only if the check is not ok.
Check(errs, ok, key, message) ==
    IF ~ok THEN AddError(errs, key, message) ELSE errs

\* In(): value is one of list.
In(value, list) == \E i \in 1..Len(list) : value = list[i]

\* A faulty Unique that compares neighbours only.
UniqueNeighbours(values) ==
    \A i \in 1..(Len(values) - 1) : values[i] # values[i + 1]

\* Unique(): the values are put in a map as keys; true when the map has as
\* many keys as there are values.
Unique(values) ==
    LET uniqueValues == {values[i] : i \in 1..Len(values)} IN
    Len(values) = Cardinality(uniqueValues)

(***************************************************************************)
(* The Validator on its own: New(), then any calls of AddError and Check.  *)
(***************************************************************************)
ValidatorKeys == {"page", "sort"}
ValidatorMessages == {"first", "second"}

Idle == [op |-> "none"]
\* No jsonlog.Logger is part of the operation under way.
NoLogger == [minLevel |-> 0, mu |-> 0, out |-> << >>, exited |-> FALSE, g |-> << >>]
NoResponse == [header |-> EmptyMap, wroteHeader |-> FALSE, status |-> 0,
               sent |-> EmptyMap, body |-> << >>, log |-> << >>]

InitValidator ==
    /\ pc = "ready"
    /\ Errors = New
    /\ history = << >>
    /\ request = Idle
    /\ response = NoResponse
    /\ models = << >>
    /\ result = Idle
    /\ logger = NoLogger

AddErrorCall ==
    \E key \in ValidatorKeys, message \in ValidatorMessages :
        /\ Len(history) < MaxCalls
        /\ Errors' = AddError(Errors, key, message)
        /\ history' = Append(history, [op |-> "AddError", ok |-> FALSE,
                                       key |-> key, message |-> message])
        /\ UNCHANGED <<pc, request, response, models, result, logger>>

CheckCall ==
    \E ok \in BOOLEAN, key \in ValidatorKeys, message \in ValidatorMessages :
        /\ Len(history) < MaxCalls
        /\ Errors' = Check(Errors, ok, key, message)
        /\ history' = Append(history, [op |-> "Check", ok |-> ok,
                                       key |-> key, message |-> message])
        /\ UNCHANGED <<pc, request, response, models, result, logger>>

NextValidator == AddErrorCall \/ CheckCall

SpecValidator == InitValidator /\ [][NextValidator]_vars

\* The failing calls made for a key: AddError, or Check with ok = false.
FailingCalls(key) ==
    {i \in 1..Len(history) : history[i].key = key /\ ~history[i].ok}

FirstOf(S) == CHOOSE i \in S : \A j \in S : i <= j

\* C2: after any calls of AddError and Check on a Validator made by New(),
\* a key has a message exactly when a failing call was made for it, and the
\* message is the one of the first failing call for that key.
C2_FirstFailureWins ==
    \A key \in ValidatorKeys :
        IF FailingCalls(key) = {}
        THEN key \notin DOMAIN Errors
        ELSE /\ key \in DOMAIN Errors
             /\ Errors[key] = history[FirstOf(FailingCalls(key))].message

\* Two failing calls with different messages were made for "page".
C2_Witness ==
    \E i, j \in FailingCalls("page") :
        /\ i < j
        /\ history[i].message = "first"
        /\ history[j].message = "second"
        /\ history[j].op = "AddError"
        /\ Errors["page"] = "first"

\* C14: Valid() is true exactly when no failing call (AddError, or Check
\* with ok = false) was made on the Validator since New(), and once it is
\* false no later call makes it true again.
C14_ValidIffNoFailure ==
    /\ [](Valid(Errors) <=> \A i \in 1..Len(history) : history[i].ok)
    /\ [][~Valid(Errors) => ~Valid(Errors')]_vars

\* Valid() was false after a failing Check, and a passing Check came after it.
C14_Witness ==
    /\ Len(history) >= 2
    /\ history[1] = [op |-> "Check", ok |-> FALSE, key |-> "sort", message |-> "first"]
    /\ history[Len(history)].op = "Check"
    /\ history[Len(history)].ok
    /\ ~Valid(Errors)

(***************************************************************************)
(* Unique on its own: one call on any slice of strings.                    *)
(***************************************************************************)
MaxValues == 3      \* strings in a slice handed to Unique

UniqueStrings == {"a", "b", "c", "A"}

InitUnique ==
    /\ pc = "ready"
    /\ Errors = New
    /\ history = << >>
    /\ request \in [op : {"Unique"},
                    values : UNION {[1..n -> UniqueStrings] : n \in 0..MaxValues}]
    /\ response = NoResponse
    /\ models = << >>
    /\ result = Idle
    /\ logger = NoLogger

UniqueCall ==
    /\ pc = "ready"
    /\ request.op = "Unique"
    /\ result' = Unique(request.values)
    /\ pc' = "done"
    /\ UNCHANGED <<Errors, history, request, response, models, logger>>

NextUnique == UniqueCall

SpecUnique == InitUnique /\ [][NextUnique]_vars

\* C15: Unique returns true exactly when no two positions of the slice hold
\* equal strings; so it returns true for the empty slice.
C15_UniqueIffNoDuplicate ==
    pc = "done" =>
        (result <=> \A i, j \in 1..Len(request.values) :
                        i # j => request.values[i] # request.values[j])

\* ["a","b","a"] was found not unique.
C15_Witness ==
    /\ pc = "done"
    /\ request.values = <<"a", "b", "a">>
    /\ result = FALSE

\* [] was found unique.
C15_WitnessEmpty ==
    /\ pc = "done"
    /\ request.values = << >>
    /\ result = TRUE

(***************************************************************************)
(* readJSON                                                                *)
(*                                                                         *)
(* A request body is a sequence of segments, each a run of bytes of one    *)
(* kind with its length in bytes:                                          *)
(*   ws        JSON whitespace                                             *)
(*   ok        one complete JSON value that decodes into the target        *)
(*   typeField one complete JSON value with a field of the wrong JSON type *)
(*   typeTop   one complete JSON value of the wrong type for the target    *)
(*   unknown   one complete JSON object with a field the target lacks      *)
(*   other     one complete JSON value a field's UnmarshalJSON rejects     *)
(*   bad       bytes that stop being JSON at the last byte of the segment  *)
(*   partial   the beginning of a JSON value, cut off (last segment only)  *)
(* Complete values are objects, as the handlers' targets are structs: the  *)
(* decoder knows a value is complete at its last byte.                     *)
(***************************************************************************)
MaxSegs == 3        \* segments of a request body

\* maxBytes := 1_048_576
maxBytes == 1048576

ValueKinds == {"ok", "typeField", "typeTop", "unknown", "other"}
SegmentKinds == ValueKinds \cup {"ws", "bad", "partial"}

\* The shortest run of each kind, and a run one byte short of the limit.
SegmentLens(kind) ==
    {IF kind \in ValueKinds THEN 2 ELSE 1, maxBytes - 1}

Segments == {[kind |-> k, len |-> n] : k \in SegmentKinds, n \in {1, 2, maxBytes - 1}}

Bodies ==
    UNION {{b \in [1..n -> Segments] :
                \A i \in 1..n :
                    /\ b[i].len \in SegmentLens(b[i].kind)
                    /\ (b[i].kind = "partial" => i = n)} : n \in 0..MaxSegs}

\* The decode targets a caller can pass as dst.
Targets == {"pointer", "nilPointer", "nonPointer"}

RECURSIVE End(_, _)
\* The number of bytes of the body up to the end of segment i.
End(body, i) == IF i = 0 THEN 0 ELSE End(body, i - 1) + body[i].len

\* The errors of encoding/json, io and net/http that Decode can return.
Nil == [type |-> "nil"]
EOF == [type |-> "io.EOF", text |-> <<"EOF">>]
ErrUnexpectedEOF == [type |-> "io.ErrUnexpectedEOF", text |-> <<"unexpected EOF">>]
SyntaxError(offset) ==
    [type |-> "*json.SyntaxError", text |-> <<"invalid character">>, Offset |-> offset]
UnmarshalTypeError(field, offset) ==
    [type |-> "*json.UnmarshalTypeError", text |-> <<"json: cannot unmarshal">>,
     Field |-> field, Offset |-> offset]
UnknownFieldError == [type |-> "*errors.errorString",
                      text |-> <<"json: unknown field ", "\"foo\"">>]
MaxBytesError == [type |-> "*http.MaxBytesError",
                  text |-> <<"http: request body too large">>]
InvalidUnmarshalError == [type |-> "*json.InvalidUnmarshalError",
                          text |-> <<"json: Unmarshal(non-pointer)">>]
OtherError == [type |-> "*errors.errorString", text |-> <<"invalid runtime format">>]

RECURSIVE readValue(_, _)
\* Decoder.readValue over http.MaxBytesReader(body, maxBytes), from segment
\* i on: the bytes read so far are scanned before the reader's error is
\* looked at, and the reader fails once more than maxBytes bytes are asked
\* for.
readValue(body, i) ==
    IF i > Len(body)
    THEN [err |-> EOF, at |-> i]
    ELSE IF body[i].kind = "bad" /\ End(body, i) <= maxBytes
    THEN [err |-> SyntaxError(End(body, i)), at |-> i]
    ELSE IF End(body, i) > maxBytes
    THEN [err |-> MaxBytesError, at |-> i]
    ELSE IF body[i].kind = "ws"
    THEN readValue(body, i + 1)
    ELSE IF body[i].kind = "partial"
    THEN [err |-> ErrUnexpectedEOF, at |-> i]
    ELSE [err |-> Nil, at |-> i]

\* decodeState.unmarshal of the value in segment `at` into a target.
unmarshal(body, at, dst) ==
    IF dst # "pointer" THEN InvalidUnmarshalError
    ELSE CASE body[at].kind = "ok" -> Nil
           [] body[at].kind = "typeField" -> UnmarshalTypeError("title", End(body, at))
           [] body[at].kind = "typeTop" -> UnmarshalTypeError("", End(body, at))
           [] body[at].kind = "unknown" -> UnknownFieldError
           [] OTHER -> OtherError

\* dec.Decode(dst) with the decoder standing before segment i: the error,
\* and the segment the decoder stands before afterwards.
Decode(body, i, dst) ==
    LET rv == readValue(body, i) IN
    IF rv.err # Nil
    THEN [err |-> rv.err, next |-> rv.at]
    ELSE [err |-> unmarshal(body, rv.at, dst), next |-> rv.at + 1]

\* What readJSON does with an error: return it, or panic with it.
Return(err) == [kind |-> "return", err |-> err]
Panic(err) == [kind |-> "panic", err |-> err]
Errorf(format, arg) == [type |-> "*fmt.wrapError", text |-> <<format, arg>>]
ErrorsNew(text) == [type |-> "*errors.errorString", text |-> <<text>>]

\* The triage of the error of the first Decode.
Triage(err) ==
    CASE err.type = "*json.SyntaxError" ->
            Return(Errorf("body contains badly-formed JSON (at character %d)", err.Offset))
      [] err.type = "io.ErrUnexpectedEOF" ->
            Return(ErrorsNew("body contains badly-formed JSON"))
      [] err.type = "*json.UnmarshalTypeError" ->
            IF err.Field # ""
            THEN Return(Errorf("body contains incorrect JSON type for field %q", err.Field))
            ELSE Return(Errorf("body contains incorrect JSON type (at character %d)",
                               err.Offset))
      [] err.type = "io.EOF" ->
            Return(ErrorsNew("body must not be empty"))
      [] OTHER ->
            IF err.text[1] = "json: unknown field "
            THEN Return(Errorf("body contains unknown key %s", err.text[2]))
            ELSE IF err.text = <<"http: request body too large">>
            THEN Return(Errorf("body must not be larger than %d bytes", maxBytes))
            ELSE IF err.type = "*json.InvalidUnmarshalError"
            THEN Panic(err)
            ELSE Return(err)

\* A faulty readJSON that leaves out the second Decode.
readJSONNoSecondDecode(body, dst) ==
    LET first == Decode(body, 1, dst) IN
    IF first.err # Nil THEN Triage(first.err) ELSE Return(Nil)

\* A faulty readJSON that takes the reader's size error of the second
\* Decode for the end of the input.
readJSONSecondDecodeLenient(body, dst) ==
    LET first == Decode(body, 1, dst) IN
    IF first.err # Nil
    THEN Triage(first.err)
    ELSE IF Decode(body, first.next, "pointer").err \notin {EOF, MaxBytesError}
    THEN Return(ErrorsNew("body must only contain a single JSON value"))
    ELSE Return(Nil)

\* readJSON(response, request, dst).
readJSON(body, dst) ==
    LET first == Decode(body, 1, dst) IN
    IF first.err # Nil
    THEN Triage(first.err)
    ELSE IF Decode(body, first.next, "pointer").err # EOF
    THEN Return(ErrorsNew("body must only contain a single JSON value"))
    ELSE Return(Nil)

(***************************************************************************)
(* readJSON on its own: one call on any body and any target.               *)
(***************************************************************************)
InitReadJSON ==
    /\ pc = "ready"
    /\ Errors = New
    /\ history = << >>
    /\ request \in [op : {"readJSON"}, body : Bodies, dst : Targets]
    /\ response = NoResponse
    /\ models = << >>
    /\ result = Idle
    /\ logger = NoLogger

ReadJSONCall ==
    /\ pc = "ready"
    /\ request.op = "readJSON"
    /\ result' = readJSON(request.body, request.dst)
    /\ pc' = "done"
    /\ UNCHANGED <<Errors, history, request, response, models, logger>>

NextReadJSON == ReadJSONCall

SpecReadJSON == InitReadJSON /\ [][NextReadJSON]_vars

\* The length of a body in bytes.
Total(body) == End(body, Len(body))

SizeLimitFailure == Return(Errorf("body must not be larger than %d bytes", maxBytes))
MultipleValuesFailure == Return(ErrorsNew("body must only contain a single JSON value"))

\* Segment i holds the first JSON value of the body, it lies within the size
\* limit and it decodes into the target without error.
FirstValueDecodes(body, i) ==
    /\ i \in 1..Len(body)
    /\ body[i].kind = "ok"
    /\ End(body, i) <= maxBytes
    /\ \A j \in 1..(i - 1) : body[j].kind = "ws"

\* C3: every body longer than 1,048,576 bytes makes readJSON fail with the
\* size-limit failure and no other, whatever its content.
\* It is stated for a writable target, the way the handlers call readJSON.
C3_OversizeIsSizeLimitFailure ==
    (pc = "done" /\ request.dst = "pointer" /\ Total(request.body) > maxBytes)
        => result = SizeLimitFailure

\* C4: readJSON returns nil exactly when the target is writable and the body
\* is, within the size limit, one JSON value that decodes without error with
\* nothing but whitespace around it; otherwise it returns an error, or, only
\* for an invalid target, panics.
C4_SuccessIffOneGoodValue ==
    pc = "done" =>
        /\ (result = Return(Nil)) <=>
                /\ request.dst = "pointer"
                /\ Total(request.body) <= maxBytes
                /\ \E i \in 1..Len(request.body) :
                        /\ request.body[i].kind = "ok"
                        /\ \A j \in 1..Len(request.body) :
                                j # i => request.body[j].kind = "ws"
        /\ result.kind \in {"return", "panic"}
        /\ (result.kind = "panic" => request.dst # "pointer")

\* A body of whitespace, one good value and whitespace again was accepted.
C4_Witness ==
    /\ pc = "done"
    /\ result = Return(Nil)
    /\ Len(request.body) = 3
    /\ request.body[1].kind = "ws"
    /\ request.body[3].kind = "ws"

\* C5 as stated: once the first value has decoded, a body with any trailing
\* data after it gets the multiple-values failure.
C5_AnyTrailingDataRejected ==
    pc = "done" /\ request.dst = "pointer" =>
        \A i \in 1..Len(request.body) :
            (FirstValueDecodes(request.body, i) /\ i < Len(request.body))
                => result = MultipleValuesFailure

\* C5 as amended: once the first value has decoded, readJSON returns the
\* multiple-values failure exactly when the bytes after it hold anything but
\* JSON whitespace or run past the size limit, and nil when they are
\* whitespace within the limit (or there are none).
C5_TrailingNonWhitespaceRejected ==
    pc = "done" /\ request.dst = "pointer" =>
        \A i \in 1..Len(request.body) :
            FirstValueDecodes(request.body, i) =>
                IF \/ \E j \in (i + 1)..Len(request.body) : request.body[j].kind # "ws"
                   \/ Total(request.body) > maxBytes
                THEN result = MultipleValuesFailure
                ELSE result = Return(Nil)

\* A second JSON value after the first was rejected as multiple values.
C5_Witness ==
    /\ pc = "done"
    /\ request.dst = "pointer"
    /\ Len(request.body) = 2
    /\ FirstValueDecodes(request.body, 1)
    /\ request.body[2].kind = "ok"
    /\ result = MultipleValuesFailure

\* C6: with a decode target that is not a writable destination readJSON
\* panics and returns no error, for every body.
C6_InvalidTargetPanics ==
    (pc = "done" /\ request.dst # "pointer") => result.kind = "panic"

(***************************************************************************)
(* writeJSON                                                               *)
(*                                                                         *)
(* The http.ResponseWriter: header is the live map Header() returns,       *)
(* WriteHeader sends the status line with the header map as it is at that  *)
(* moment (sent), and Write sends body bytes, after an implicit            *)
(* WriteHeader(200) when no status line was sent yet.  log lists the calls *)
(* made on the writer, in order (ghost).                                   *)
(***************************************************************************)
NilError == Nil
UnsupportedTypeError == [type |-> "*json.UnsupportedTypeError",
                         text |-> <<"json: unsupported type">>]

\* The values an envelope can hold: chan is one json.Marshal cannot encode.
EnvelopeValues == {[type |-> t] : t \in {"string", "struct", "chan"}}
EnvelopeKeys == {"movie", "metadata"}
Envelopes == UNION {[ks -> EnvelopeValues] : ks \in SUBSET EnvelopeKeys}

\* json.Marshal(data): the JSON text as one chunk of bytes, free of newlines.
Marshal(data) ==
    IF \E k \in DOMAIN data : data[k].type = "chan"
    THEN [js |-> << >>, err |-> UnsupportedTypeError]
    ELSE [js |-> <<[json |-> data]>>, err |-> NilError]

\* textproto.CanonicalMIMEHeaderKey, on the keys of the model.
CanonicalMIMEHeaderKey(key) == IF key = "content-type" THEN "Content-Type" ELSE key

\* response.Header()[key] = value, for every key of a map (nil: no key).
MergeHeaders(w, headers) ==
    LET keys == IF headers.nil THEN {} ELSE DOMAIN headers.map IN
    [w EXCEPT !.header = [k \in (DOMAIN w.header) \cup keys |->
                              IF k \in keys THEN headers.map[k] ELSE w.header[k]],
              !.log = Append(w.log, [call |-> "Header()[]=", keys |-> keys])]

\* response.Header().Set(key, value).
HeaderSet(w, key, value) ==
    LET ck == CanonicalMIMEHeaderKey(key) IN
    [w EXCEPT !.header = [k \in (DOMAIN w.header) \cup {ck} |->
                              IF k = ck THEN <<value>> ELSE w.header[k]],
              !.log = Append(w.log, [call |-> "Header().Set", key |-> ck])]

\* response.WriteHeader(status): has no effect after the first one.
WriteHeader(w, status) ==
    IF w.wroteHeader
    THEN [w EXCEPT !.log = Append(w.log, [call |-> "WriteHeader", status |-> status])]
    ELSE [w EXCEPT !.wroteHeader = TRUE, !.status = status, !.sent = w.header,
                   !.log = Append(w.log, [call |-> "WriteHeader", status |-> status])]

\* response.Write(bytes).
Write(w, bytes) ==
    LET w1 == IF w.wroteHeader THEN w
              ELSE [w EXCEPT !.wroteHeader = TRUE, !.status = 200, !.sent = w.header] IN
    [w1 EXCEPT !.body = w1.body \o bytes,
               !.log = Append(w1.log, [call |-> "Write"])]

\* A faulty writeJSON that prepares the headers before it serializes.
writeJSONHeadersFirst(w, status, data, headers) ==
    LET w1 == HeaderSet(MergeHeaders(w, headers), "Content-Type", "application/json")
        m == Marshal(data) IN
    IF m.err # NilError
    THEN [w |-> w1, err |-> m.err]
    ELSE [w |-> Write(WriteHeader(w1, status), m.js \o <<"\n">>), err |-> NilError]

\* A faulty writeJSON that sets Content-Type before it merges the headers.
writeJSONSetBeforeMerge(w, status, data, headers) ==
    LET m == Marshal(data) IN
    IF m.err # NilError
    THEN [w |-> w, err |-> m.err]
    ELSE LET js == m.js \o <<"\n">>
             w1 == HeaderSet(w, "Content-Type", "application/json")
             w2 == MergeHeaders(w1, headers)
             w3 == WriteHeader(w2, status)
         IN  [w |-> Write(w3, js), err |-> NilError]

\* writeJSON(response, status, data, headers): the writer afterwards and the
\* error returned.
writeJSON(w, status, data, headers) ==
    LET m == Marshal(data) IN
    IF m.err # NilError
    THEN [w |-> w, err |-> m.err]
    ELSE LET js == m.js \o <<"\n">>
             w1 == MergeHeaders(w, headers)
             w2 == HeaderSet(w1, "Content-Type", "application/json")
             w3 == WriteHeader(w2, status)
         IN  [w |-> Write(w3, js), err |-> NilError]

(***************************************************************************)
(* writeJSON on its own: one call with any status, envelope and headers,   *)
(* on a writer nothing was sent on yet.                                    *)
(***************************************************************************)
Statuses == {200, 201, 422}

\* The keys of an http.Header are in canonical form.
HeaderKeys == {"Location", "Content-Type", "Vary"}
HeaderValues == {<<"/v1/movies/1">>, <<"text/plain">>}
HeaderMaps == UNION {[ks -> HeaderValues] : ks \in SUBSET HeaderKeys}
HeaderArgs == {[nil |-> TRUE, map |-> EmptyMap]}
                \cup {[nil |-> FALSE, map |-> m] : m \in HeaderMaps}

\* Writers as a handler gets them: nothing sent, headers as middleware left them.
FreshWriters ==
    {[NoResponse EXCEPT !.header = h] :
        h \in {EmptyMap, [k \in {"Content-Type"} |-> <<"text/html">>]}}

InitWriteJSON ==
    /\ pc = "ready"
    /\ Errors = New
    /\ history = << >>
    /\ request \in [op : {"writeJSON"}, w : FreshWriters, status : Statuses,
                    data : Envelopes, headers : HeaderArgs]
    /\ response = request.w
    /\ models = << >>
    /\ result = Idle
    /\ logger = NoLogger

WriteJSONCall ==
    /\ pc = "ready"
    /\ request.op = "writeJSON"
    /\ LET r == writeJSON(response, request.status, request.data, request.headers) IN
            /\ response' = r.w
            /\ result' = r.err
    /\ pc' = "done"
    /\ UNCHANGED <<Errors, history, request, models, logger>>

NextWriteJSON == WriteJSONCall

SpecWriteJSON == InitWriteJSON /\ [][NextWriteJSON]_vars

\* The envelope has a value that cannot be serialized.
Unserializable(data) ==
    \E k \in DOMAIN data : data[k].type \notin {"string", "struct", "map", "slice"}

\* C7: when serializing the envelope fails, writeJSON returns the error and
\* the writer is as it was passed in: no header merged or set, no status
\* line and no body bytes written.
C7_FailureLeavesResponseUntouched ==
    (pc = "done" /\ Unserializable(request.data)) =>
        /\ result # NilError
        /\ response = request.w
        /\ response.log = << >>
        /\ ~response.wroteHeader
        /\ response.body = << >>

\* Serialization failed on a call that carried headers to merge.
C7_Witness ==
    /\ pc = "done"
    /\ Unserializable(request.data)
    /\ ~request.headers.nil
    /\ "Location" \in DOMAIN request.headers.map
    /\ result = UnsupportedTypeError

\* C8: when serialization succeeds, writeJSON merges the caller's headers
\* (none for a nil map), then sets Content-Type, then writes the status
\* line, then writes the JSON followed by one newline; the response is sent
\* with Content-Type application/json and with the caller's other headers.
C8_EffectsInOrder ==
    (pc = "done" /\ ~Unserializable(request.data)) =>
        LET keys == IF request.headers.nil THEN {} ELSE DOMAIN request.headers.map IN
        /\ result = NilError
        /\ response.log = <<[call |-> "Header()[]=", keys |-> keys],
                            [call |-> "Header().Set", key |-> "Content-Type"],
                            [call |-> "WriteHeader", status |-> request.status],
                            [call |-> "Write"]>>
        /\ response.status = request.status
        /\ response.sent["Content-Type"] = <<"application/json">>
        /\ \A k \in keys \ {"Content-Type"} : response.sent[k] = request.headers.map[k]
        /\ response.body = <<[json |-> request.data], "\n">>

\* A response was written for a caller that passed its own Content-Type.
C8_Witness ==
    /\ pc = "done"
    /\ ~Unserializable(request.data)
    /\ ~request.headers.nil
    /\ {"Content-Type", "Location"} \subseteq DOMAIN request.headers.map
    /\ request.headers.map["Content-Type"] = <<"text/plain">>
    /\ response.sent["Content-Type"] = <<"application/json">>
    /\ response.status = 201

(***************************************************************************)
(* The query string readers: readString, readCSV, readInt                  *)
(*                                                                         *)
(* A query string value is a sequence of one-character strings.  A         *)
(* url.Values holds, for each key of the model, whether the key is present *)
(* and its first value.                                                    *)
(***************************************************************************)
Absent == [present |-> FALSE, value |-> << >>]
Present(value) == [present |-> TRUE, value |-> value]

\* qs.Get(key): the first value of the key, "" when the key is absent.
Get(qs, key) == IF qs[key].present THEN qs[key].value ELSE << >>

\* readString(qs, key, defaultValue).
readString(qs, key, defaultValue) ==
    LET s == Get(qs, key) IN
    IF s = << >> THEN defaultValue ELSE s

RECURSIVE Split(_, _)
\* strings.Split(s, sep) for a one-character sep.
Split(s, sep) ==
    IF \A i \in 1..Len(s) : s[i] # sep
    THEN <<s>>
    ELSE LET i == CHOOSE k \in 1..Len(s) :
                      s[k] = sep /\ \A j \in 1..(k - 1) : s[j] # sep
         IN  <<SubSeq(s, 1, i - 1)>> \o Split(SubSeq(s, i + 1, Len(s)), sep)

\* readCSV(qs, key, defaultValue).
readCSV(qs, key, defaultValue) ==
    LET csv == Get(qs, key) IN
    IF csv = << >> THEN defaultValue ELSE Split(csv, ",")

DigitChars == <<"0", "1", "2", "3", "4", "5", "6", "7", "8", "9">>
IsDigit(c) == \E i \in 1..Len(DigitChars) : DigitChars[i] = c
DigitValue(c) == (CHOOSE i \in 1..Len(DigitChars) : DigitChars[i] = c) - 1

RECURSIVE ParseDigits(_)
\* The number a sequence of decimal digits writes.
ParseDigits(s) ==
    IF s = << >> THEN 0
    ELSE 10 * ParseDigits(SubSeq(s, 1, Len(s) - 1)) + DigitValue(s[Len(s)])

RECURSIVE StripZeros(_)
StripZeros(s) == IF s # << >> /\ s[1] = "0" THEN StripZeros(Tail(s)) ELSE s

\* strconv.Atoi(s) with a 64-bit int: an optional sign and one or more
\* decimal digits; more than 19 significant digits are out of range.  (The
\* model's inputs have at most 9 or at least 20 significant digits.)
Atoi(s) ==
    LET signed == s # << >> /\ s[1] \in {"+", "-"}
        digits == IF signed THEN Tail(s) ELSE s
    IN  IF digits = << >> \/ \E i \in 1..Len(digits) : ~IsDigit(digits[i])
        THEN [i |-> 0, err |-> "strconv.ErrSyntax"]
        ELSE IF Len(StripZeros(digits)) > 19
        THEN [i |-> 0, err |-> "strconv.ErrRange"]
        ELSE [i |-> IF signed /\ s[1] = "-" THEN 0 - ParseDigits(digits)
                    ELSE ParseDigits(digits),
              err |-> "nil"]

\* A faulty readInt that returns Atoi's zero instead of the default after a
\* parse failure.
readIntZeroOnFailure(qs, key, defaultValue, errs) ==
    LET s == Get(qs, key) IN
    IF s = << >> THEN [i |-> defaultValue, errs |-> errs]
    ELSE LET a == Atoi(s) IN
         IF a.err # "nil"
         THEN [i |-> a.i, errs |-> AddError(errs, key, "must be an integer value")]
         ELSE [i |-> a.i, errs |-> errs]

\* readInt(qs, key, defaultValue, v): the int returned and v.Errors afterwards.
readInt(qs, key, defaultValue, errs) ==
    LET s == Get(qs, key) IN
    IF s = << >> THEN [i |-> defaultValue, errs |-> errs]
    ELSE LET a == Atoi(s) IN
         IF a.err # "nil"
         THEN [i |-> defaultValue,
               errs |-> AddError(errs, key, "must be an integer value")]
         ELSE [i |-> a.i, errs |-> errs]

(***************************************************************************)
(* readInt on its own: one call on any value of the key, with any default  *)
(* and a Validator that may hold messages already.                         *)
(***************************************************************************)
TwentyNines == [i \in 1..20 |-> "9"]

\* Query string values with what they are as base-10 integers (isInt: the
\* text is an optional sign and decimal digits and the number fits an int).
IntTexts ==
    {[s |-> <<"5">>, isInt |-> TRUE, n |-> 5],
     [s |-> <<"2", "0">>, isInt |-> TRUE, n |-> 20],
     [s |-> <<"0">>, isInt |-> TRUE, n |-> 0],
     [s |-> <<"-", "1">>, isInt |-> TRUE, n |-> 0 - 1],
     [s |-> <<"+", "3">>, isInt |-> TRUE, n |-> 3],
     [s |-> <<"0", "0", "7">>, isInt |-> TRUE, n |-> 7],
     [s |-> <<"1", "0", "0">>, isInt |-> TRUE, n |-> 100],
     [s |-> <<"1", "0", "1">>, isInt |-> TRUE, n |-> 101],
     [s |-> <<"1", "0", "0", "0", "0", "0", "0", "0">>, isInt |-> TRUE, n |-> 10000000],
     [s |-> <<"1", "0", "0", "0", "0", "0", "0", "1">>, isInt |-> TRUE, n |-> 10000001],
     [s |-> <<"a", "b", "c">>, isInt |-> FALSE, n |-> 0],
     [s |-> <<"1", "a">>, isInt |-> FALSE, n |-> 0],
     [s |-> <<"-">>, isInt |-> FALSE, n |-> 0],
     [s |-> <<"1", ".", "5">>, isInt |-> FALSE, n |-> 0],
     [s |-> <<" ", "1">>, isInt |-> FALSE, n |-> 0],
     [s |-> TwentyNines, isInt |-> FALSE, n |-> 0]}

IntTextOf(s) == CHOOSE t \in IntTexts : t.s = s

IntParams == {Absent, Present(<< >>)} \cup {Present(t.s) : t \in IntTexts}

IntKeys == {"page", "page_size"}

\* The Validators readInt can be handed: new, or holding earlier messages.
EarlierErrors ==
    {New} \cup {[k \in {key} |-> "earlier message"] : key \in IntKeys}

InitReadInt ==
    /\ pc = "ready"
    /\ request \in [op : {"readInt"}, qs : [IntKeys -> IntParams], key : IntKeys,
                    defaultValue : {1, 20}, errs : EarlierErrors]
    /\ request.qs[CHOOSE k \in IntKeys : k # request.key] = Absent
    /\ Errors = request.errs
    /\ history = << >>
    /\ response = NoResponse
    /\ models = << >>
    /\ result = Idle
    /\ logger = NoLogger

ReadIntCall ==
    /\ pc = "ready"
    /\ request.op = "readInt"
    /\ LET r == readInt(request.qs, request.key, request.defaultValue, Errors) IN
            /\ result' = r.i
            /\ Errors' = r.errs
    /\ pc' = "done"
    /\ UNCHANGED <<history, request, response, models, logger>>

NextReadInt == ReadIntCall

SpecReadInt == InitReadInt /\ [][NextReadInt]_vars

\* C9: readInt returns the default and records nothing when the key is
\* absent or its value empty; when the value is not a base-10 integer it
\* returns the default and records "must be an integer value" under the key
\* unless the key has a message already; otherwise it returns the integer
\* and records nothing.
C9_ReadInt ==
    pc = "done" =>
        LET p == request.qs[request.key] IN
        IF ~p.present \/ p.value = << >>
        THEN result = request.defaultValue /\ Errors = request.errs
        ELSE IF ~IntTextOf(p.value).isInt
        THEN /\ result = request.defaultValue
             /\ DOMAIN Errors = (DOMAIN request.errs) \cup {request.key}
             /\ \A k \in DOMAIN request.errs : Errors[k] = request.errs[k]
             /\ (request.key \notin DOMAIN request.errs
                    => Errors[request.key] = "must be an integer value")
        ELSE result = IntTextOf(p.value).n /\ Errors = request.errs

\* page_size=abc with default 20 returned 20 and recorded the error.
C9_Witness ==
    /\ pc = "done"
    /\ request.key = "page_size"
    /\ request.qs["page_size"] = Present(<<"a", "b", "c">>)
    /\ request.defaultValue = 20
    /\ request.errs = New
    /\ result = 20
    /\ Errors = [k \in {"page_size"} |-> "must be an integer value"]

(***************************************************************************)
(* listMoviesHandler                                                       *)
(***************************************************************************)
Str_id == <<"i", "d">>
Str_title == <<"t", "i", "t", "l", "e">>
Str_year == <<"y", "e", "a", "r">>
Str_runtime == <<"r", "u", "n", "t", "i", "m", "e">>

\* input.Filters.SortSafelist
SortSafelist ==
    <<Str_id, Str_title, Str_year, Str_runtime,
      <<"-">> \o Str_id, <<"-">> \o Str_title, <<"-">> \o Str_year,
      <<"-">> \o Str_runtime>>

\* data.ValidateFilters(v, f): page in [1, 10,000,000], page size in
\* [1, 100], sort a member of the safelist; every check is run.
ValidateFilters(errs, f) ==
    LET e1 == Check(errs, f.Page > 0, "page", "must be greater than zero")
        e2 == Check(e1, f.Page <= 10000000, "page", "must be a maximum of 10 million")
        e3 == Check(e2, f.PageSize > 0, "page_size", "must be greater than zero")
        e4 == Check(e3, f.PageSize <= 100, "page_size", "must be a maximum of 100")
    IN  Check(e4, In(f.Sort, f.SortSafelist), "sort", "invalid sort value")

\* app.errorResponse(w, r, status, message): the message in an envelope
\* under "error", written with writeJSON.
errorResponse(w, status, message) ==
    writeJSON(w, status, [k \in {"error"} |-> message], [nil |-> TRUE, map |-> EmptyMap]).w

\* app.failedValidationResponse(w, r, errors): 422 with the errors map.
failedValidationResponse(w, errors) ==
    errorResponse(w, 422, [type |-> "map", value |-> errors])

\* app.serverErrorResponse(w, r, err): 500 with a generic message.
serverErrorResponse(w) ==
    errorResponse(w, 500, [type |-> "string",
                           value |-> "the server encountered a problem"])

\* A faulty listMoviesHandler that goes on to GetAll without testing Valid().
listMoviesHandlerNoValidTest(w, qs, getAllFails, movies) ==
    LET page == readInt(qs, "page", 1, New)
        pageSize == readInt(qs, "page_size", 20, page.errs)
        filters == [Page |-> page.i, PageSize |-> pageSize.i,
                    Sort |-> readString(qs, "sort", Str_id),
                    SortSafelist |-> SortSafelist]
        v == ValidateFilters(pageSize.errs, filters)
        call == [call |-> "GetAll", title |-> readString(qs, "title", << >>),
                 genres |-> readCSV(qs, "genres", << >>), filters |-> filters]
    IN  [w |-> IF getAllFails THEN serverErrorResponse(w)
               ELSE writeJSON(w, 200, [k \in {"movies", "metadata"} |->
                                          IF k = "movies" THEN movies
                                          ELSE [type |-> "struct"]],
                              [nil |-> TRUE, map |-> EmptyMap]).w,
         errs |-> v, models |-> <<call>>]

\* A faulty listMoviesHandler that answers as soon as readInt has recorded
\* an error, before the remaining parameters are read and validated.
listMoviesHandlerShortCircuit(w, qs, getAllFails, movies) ==
    LET page == readInt(qs, "page", 1, New)
        pageSize == readInt(qs, "page_size", 20, page.errs)
        filters == [Page |-> page.i, PageSize |-> pageSize.i,
                    Sort |-> readString(qs, "sort", Str_id),
                    SortSafelist |-> SortSafelist]
        v == IF ~Valid(page.errs) THEN page.errs
             ELSE ValidateFilters(pageSize.errs, filters)
        call == [call |-> "GetAll", title |-> readString(qs, "title", << >>),
                 genres |-> readCSV(qs, "genres", << >>), filters |-> filters]
    IN  IF ~Valid(v)
        THEN [w |-> failedValidationResponse(w, v), errs |-> v, models |-> << >>]
        ELSE [w |-> IF getAllFails THEN serverErrorResponse(w)
                    ELSE writeJSON(w, 200, [k \in {"movies", "metadata"} |->
                                               IF k = "movies" THEN movies
                                               ELSE [type |-> "struct"]],
                                   [nil |-> TRUE, map |-> EmptyMap]).w,
              errs |-> v, models |-> <<call>>]

\* listMoviesHandler(response, request) on the query string qs, with
\* Movies.GetAll failing or returning movies: the writer afterwards,
\* v.Errors, and the calls made on app.models.Movies.
listMoviesHandler(w, qs, getAllFails, movies) ==
    LET title == readString(qs, "title", << >>)
        genres == readCSV(qs, "genres", << >>)
        page == readInt(qs, "page", 1, New)
        pageSize == readInt(qs, "page_size", 20, page.errs)
        filters == [Page |-> page.i, PageSize |-> pageSize.i,
                    Sort |-> readString(qs, "sort", Str_id),
                    SortSafelist |-> SortSafelist]
        v == ValidateFilters(pageSize.errs, filters)
        call == [call |-> "GetAll", title |-> title, genres |-> genres,
                 filters |-> filters]
    IN  IF ~Valid(v)
        THEN [w |-> failedValidationResponse(w, v), errs |-> v, models |-> << >>]
        ELSE IF getAllFails
        THEN [w |-> serverErrorResponse(w), errs |-> v, models |-> <<call>>]
        ELSE LET r == writeJSON(w, 200,
                                [k \in {"movies", "metadata"} |->
                                    IF k = "movies" THEN movies ELSE [type |-> "struct"]],
                                [nil |-> TRUE, map |-> EmptyMap])
             IN  [w |-> IF r.err # NilError THEN serverErrorResponse(r.w) ELSE r.w,
                  errs |-> v, models |-> <<call>>]

(***************************************************************************)
(* createMovieHandler, showMovieHandler, updateMovieHandler and            *)
(* deleteMovieHandler                                                      *)
(*                                                                         *)
(* fields is what the JSON object of the body holds for each field of the  *)
(* input struct: nothing (absent), null, or a value.  env is what the      *)
(* collaborators will answer: the store's methods, data.ValidateMovie, and *)
(* json.Marshal on the movie.  A []string is a record: nil or not, and its *)
(* elements.                                                               *)
(***************************************************************************)
FieldAbsent == [kind |-> "absent"]
FieldNull == [kind |-> "null"]
FieldValue(value) == [kind |-> "value", value |-> value]

NilSlice == [nil |-> TRUE, elems |-> << >>]
Slice(elems) == [nil |-> FALSE, elems |-> elems]

\* readIDParam(request): strconv.ParseInt(params.ByName("id"), 10, 64), and
\* 0 with an error when it fails or the id is below 1.
readIDParam(idParam) ==
    LET a == Atoi(idParam) IN
    IF a.err # "nil" \/ a.i < 1
    THEN [id |-> 0, err |-> TRUE]
    ELSE [id |-> a.i, err |-> FALSE]

\* data.ValidateMovie(v, movie): it reports through v, one check for each
\* field of the movie; failing is the fields whose check fails.
ValidateMovie(errs, movie, failing) ==
    LET e1 == Check(errs, "title" \notin failing, "title", "invalid")
        e2 == Check(e1, "year" \notin failing, "year", "invalid")
        e3 == Check(e2, "runtime" \notin failing, "runtime", "invalid")
    IN  Check(e3, "genres" \notin failing, "genres", "invalid")

\* app.badRequestResponse(w, r, err): 400 with the error's message.
badRequestResponse(w, err) ==
    errorResponse(w, 400, [type |-> "string", value |-> err.text])

\* app.notFoundResponse(w, r): 404.
notFoundResponse(w) ==
    errorResponse(w, 404, [type |-> "string",
                           value |-> "the requested resource could not be found"])

\* app.editConflictResponse(w, r): 409.
editConflictResponse(w) ==
    errorResponse(w, 409, [type |-> "string",
                           value |-> "unable to update the record due to an edit conflict"])

\* fmt.Sprintf(format, arg)
Sprintf(format, arg) == <<format, arg>>

\* The movie as a value of an envelope; json.Marshal fails on it when the
\* movie's MarshalJSON does.
MovieValue(movie, marshal) ==
    [type |-> IF marshal = "ok" THEN "struct" ELSE "chan", value |-> movie]

\* What a handler leaves behind: the writer, v.Errors, the calls made on
\* app.models.Movies, and its movie variable.
Handled(w, errs, calls, movie) ==
    [w |-> w, errs |-> errs, models |-> calls, movie |-> movie]

\* err = app.writeJSON(...); if err != nil { app.serverErrorResponse(...) }
writeJSONOrServerError(w, status, data, headers) ==
    LET r == writeJSON(w, status, data, headers) IN
    IF r.err # NilError THEN serverErrorResponse(r.w) ELSE r.w

NoHeaders == [nil |-> TRUE, map |-> EmptyMap]

\* The store a movie is fetched from holds this record for every id.
StoredMovie(id) ==
    [ID |-> id, Title |-> "Casablanca", Year |-> 1942, Runtime |-> 102,
     Genres |-> Slice(<<"drama">>), Version |-> 1]

\* The input struct of createMovieHandler after a successful decode: a
\* field the body leaves out or gives as null keeps its zero value.
createInput(fields) ==
    [Title |-> IF fields.title.kind = "value" THEN fields.title.value ELSE "",
     Year |-> IF fields.year.kind = "value" THEN fields.year.value ELSE 0,
     Runtime |-> IF fields.runtime.kind = "value" THEN fields.runtime.value ELSE 0,
     Genres |-> IF fields.genres.kind = "value" THEN Slice(fields.genres.value)
                ELSE NilSlice]

\* A faulty end of createMovieHandler that sends no Location header.
createMovieInsertNoLocation(w, movie, v, env) ==
    LET call == [call |-> "Insert", movie |-> movie] IN
    IF env.insert # "ok"
    THEN Handled(serverErrorResponse(w), v, <<call>>, movie)
    ELSE LET inserted == [movie EXCEPT !.ID = env.id, !.Version = 1]
         IN  Handled(writeJSONOrServerError(
                        w, 201, [k \in {"movie"} |-> MovieValue(inserted, env.marshal)],
                        NoHeaders),
                     v, <<call>>, inserted)

\* createMovieHandler from Movies.Insert on.
createMovieInsert(w, movie, v, env) ==
    LET call == [call |-> "Insert", movie |-> movie] IN
    IF env.insert # "ok"
    THEN Handled(serverErrorResponse(w), v, <<call>>, movie)
    ELSE LET inserted == [movie EXCEPT !.ID = env.id, !.Version = 1]
             headers == [nil |-> FALSE,
                         map |-> [k \in {"Location"} |->
                                     <<Sprintf("/v1/movies/%d", inserted.ID)>>]]
         IN  Handled(writeJSONOrServerError(
                        w, 201, [k \in {"movie"} |-> MovieValue(inserted, env.marshal)],
                        headers),
                     v, <<call>>, inserted)

\* createMovieHandler(response, request).  readJSON gets &input, a writable
\* target, so it returns and does not panic.
createMovieHandler(w, body, fields, env) ==
    LET r == readJSON(body, "pointer") IN
    IF r.err # Nil
    THEN Handled(badRequestResponse(w, r.err), New, << >>, Idle)
    ELSE LET input == createInput(fields)
             movie == [ID |-> 0, Title |-> input.Title, Year |-> input.Year,
                       Runtime |-> input.Runtime, Genres |-> input.Genres,
                       Version |-> 0]
             v == ValidateMovie(New, movie, env.invalid)
         IN  IF ~Valid(v)
             THEN Handled(failedValidationResponse(w, v), v, << >>, movie)
             ELSE createMovieInsert(w, movie, v, env)

\* showMovieHandler(response, request).
showMovieHandler(w, idParam, env) ==
    LET id == readIDParam(idParam) IN
    IF id.err
    THEN Handled(notFoundResponse(w), New, << >>, Idle)
    ELSE LET call == [call |-> "Get", id |-> id.id] IN
         IF env.get = "ErrRecordNotFound"
         THEN Handled(notFoundResponse(w), New, <<call>>, Idle)
         ELSE IF env.get # "ok"
         THEN Handled(serverErrorResponse(w), New, <<call>>, Idle)
         ELSE Handled(writeJSONOrServerError(
                         w, 200,
                         [k \in {"movie"} |-> MovieValue(StoredMovie(id.id), env.marshal)],
                         NoHeaders),
                      New, <<call>>, StoredMovie(id.id))

\* A faulty deleteMovieHandler that goes on after the not-found response
\* for an invalid id.
deleteMovieHandlerNoReturn(w, idParam, env) ==
    LET id == readIDParam(idParam)
        w1 == IF id.err THEN notFoundResponse(w) ELSE w
        call == [call |-> "Delete", id |-> id.id]
    IN  IF env.delete = "ErrRecordNotFound"
        THEN Handled(notFoundResponse(w1), New, <<call>>, Idle)
        ELSE IF env.delete # "ok"
        THEN Handled(serverErrorResponse(w1), New, <<call>>, Idle)
        ELSE Handled(writeJSONOrServerError(
                        w1, 200,
                        [k \in {"message"} |->
                            [type |-> "string", value |-> "movie successfully deleted"]],
                        NoHeaders),
                     New, <<call>>, Idle)

\* deleteMovieHandler(response, request).
deleteMovieHandler(w, idParam, env) ==
    LET id == readIDParam(idParam) IN
    IF id.err
    THEN Handled(notFoundResponse(w), New, << >>, Idle)
    ELSE LET call == [call |-> "Delete", id |-> id.id] IN
         IF env.delete = "ErrRecordNotFound"
         THEN Handled(notFoundResponse(w), New, <<call>>, Idle)
         ELSE IF env.delete # "ok"
         THEN Handled(serverErrorResponse(w), New, <<call>>, Idle)
         ELSE Handled(writeJSONOrServerError(
                         w, 200,
                         [k \in {"message"} |->
                             [type |-> "string", value |-> "movie successfully deleted"]],
                         NoHeaders),
                      New, <<call>>, Idle)

\* A faulty merge, as with plain values in the input struct: a field given
\* as its zero value is taken for a field left out.
applyInputSkipZero(movie, fields) ==
    [movie EXCEPT
        !.Title = IF fields.title.kind = "value" /\ fields.title.value # ""
                  THEN fields.title.value ELSE @,
        !.Year = IF fields.year.kind = "value" /\ fields.year.value # 0
                 THEN fields.year.value ELSE @,
        !.Runtime = IF fields.runtime.kind = "value" /\ fields.runtime.value # 0
                    THEN fields.runtime.value ELSE @,
        !.Genres = IF fields.genres.kind = "value" /\ fields.genres.value # << >>
                   THEN Slice(fields.genres.value) ELSE @]

\* The input struct of updateMovieHandler after a successful decode, merged
\* into the movie: a pointer field (a slice, for genres) is nil when the
\* body leaves the field out or gives null, and is copied when it is not nil.
applyInput(movie, fields) ==
    [movie EXCEPT
        !.Title = IF fields.title.kind = "value" THEN fields.title.value ELSE @,
        !.Year = IF fields.year.kind = "value" THEN fields.year.value ELSE @,
        !.Runtime = IF fields.runtime.kind = "value" THEN fields.runtime.value ELSE @,
        !.Genres = IF fields.genres.kind = "value" THEN Slice(fields.genres.value)
                   ELSE @]

\* updateMovieHandler from Movies.Update on.
updateMovieStore(w, movie, v, calls, env) ==
    LET call == [call |-> "Update", movie |-> movie] IN
    IF env.update = "ErrEditConflict"
    THEN Handled(editConflictResponse(w), v, Append(calls, call), movie)
    ELSE IF env.update # "ok"
    THEN Handled(serverErrorResponse(w), v, Append(calls, call), movie)
    ELSE Handled(writeJSONOrServerError(
                    w, 200, [k \in {"movie"} |-> MovieValue(movie, env.marshal)],
                    NoHeaders),
                 v, Append(calls, call), movie)

\* A faulty updateMovieHandler that validates after it has called Update.
updateMovieFetchedUpdateFirst(w, fetched, calls, body, fields, env) ==
    LET r == readJSON(body, "pointer") IN
    IF r.err # Nil
    THEN Handled(badRequestResponse(w, r.err), New, calls, fetched)
    ELSE LET movie == applyInput(fetched, fields)
             v == ValidateMovie(New, movie, env.invalid)
             u == updateMovieStore(w, movie, v, calls, env)
         IN  IF ~Valid(v)
             THEN Handled(failedValidationResponse(w, v), v, u.models, movie)
             ELSE u

\* updateMovieHandler once the movie is fetched.
updateMovieFetched(w, fetched, calls, body, fields, env) ==
    LET r == readJSON(body, "pointer") IN
    IF r.err # Nil
    THEN Handled(badRequestResponse(w, r.err), New, calls, fetched)
    ELSE LET movie == applyInput(fetched, fields)
             v == ValidateMovie(New, movie, env.invalid)
         IN  IF ~Valid(v)
             THEN Handled(failedValidationResponse(w, v), v, calls, movie)
             ELSE updateMovieStore(w, movie, v, calls, env)

\* updateMovieHandler(response, request).
updateMovieHandler(w, idParam, body, fields, env) ==
    LET id == readIDParam(idParam) IN
    IF id.err
    THEN Handled(notFoundResponse(w), New, << >>, Idle)
    ELSE LET call == [call |-> "Get", id |-> id.id] IN
         IF env.get = "ErrRecordNotFound"
         THEN Handled(notFoundResponse(w), New, <<call>>, Idle)
         ELSE IF env.get # "ok"
         THEN Handled(serverErrorResponse(w), New, <<call>>, Idle)
         ELSE updateMovieFetched(w, StoredMovie(id.id), <<call>>, body, fields, env)

(***************************************************************************)
(* The handlers: one request, handled by the handler of its route.         *)
(***************************************************************************)
SortParams ==
    {Absent, Present(<< >>), Present(Str_id), Present(<<"-">> \o Str_year),
     Present(Str_title), Present(<<"I", "D">>), Present(<<"-">>),
     Present(Str_id \o <<";">>), Present(<<"g", "e", "n", "r", "e", "s">>)}

TitleParams == {Absent, Present(<<"x">>)}

GenresParams == {Absent, Present(<<"a", ",", "b">>), Present(<<",">>)}

ListRequests ==
    [op : {"listMovies"},
     qs : [title : TitleParams, genres : GenresParams, page : IntParams,
           page_size : IntParams, sort : SortParams]]

\* The id parameter of a route, as the router hands it on.
IdParams == {<<"5">>, <<"0">>, <<"-", "1">>, <<"a", "b", "c">>, TwentyNines}

\* Bodies of up to two short segments, the second one after a good value.
HandlerBodies ==
    {b \in Bodies : /\ Len(b) <= 2
                    /\ \A i \in 1..Len(b) : b[i].len <= 2
                    /\ (Len(b) = 2 => b[1].kind = "ok")}

\* The JSON object of a body that decodes.
MovieFields ==
    [title : {FieldAbsent, FieldNull, FieldValue(""), FieldValue("Moana")},
     year : {FieldAbsent, FieldValue(0), FieldValue(2016)},
     runtime : {FieldAbsent, FieldValue(0), FieldValue(107)},
     genres : {FieldAbsent, FieldNull, FieldValue(<< >>),
               FieldValue(<<"animation", "adventure">>),
               FieldValue(<<"animation", "animation">>)}]

NoFields == [title |-> FieldAbsent, year |-> FieldAbsent, runtime |-> FieldAbsent,
             genres |-> FieldAbsent]

GoodBody == <<[kind |-> "ok", len |-> 2]>>

StoreErrors == {"ok", "ErrRecordNotFound", "other error"}

\* The fields data.ValidateMovie may find invalid.
InvalidFields == {{}, {"title"}, {"year", "genres"}}

CreateEnvs ==
    [invalid : InvalidFields, insert : {"ok", "other error"}, id : {1, 7},
     marshal : {"ok", "error"}]
ShowEnvs == [get : StoreErrors, marshal : {"ok", "error"}]
UpdateEnvs ==
    [get : StoreErrors, invalid : InvalidFields,
     update : {"ok", "ErrEditConflict", "other error"}, marshal : {"ok", "error"}]
DeleteEnvs == [delete : StoreErrors]

CreateRequests ==
    [op : {"createMovie"}, body : HandlerBodies, fields : {NoFields}, env : CreateEnvs]
        \cup [op : {"createMovie"}, body : {GoodBody}, fields : MovieFields,
              env : CreateEnvs]

ShowRequests == [op : {"showMovie"}, id : IdParams, env : ShowEnvs]

UpdateRequests ==
    [op : {"updateMovie"}, id : IdParams, body : HandlerBodies, fields : {NoFields},
     env : UpdateEnvs]
        \cup [op : {"updateMovie"}, id : {<<"5">>}, body : {GoodBody},
              fields : MovieFields, env : UpdateEnvs]

DeleteRequests == [op : {"deleteMovie"}, id : IdParams, env : DeleteEnvs]

Requests ==
    ListRequests \cup CreateRequests \cup ShowRequests \cup UpdateRequests
        \cup DeleteRequests

Init ==
    /\ pc = "ready"
    /\ request \in Requests
    /\ Errors = New
    /\ history = << >>
    /\ response = NoResponse
    /\ models = << >>
    /\ result = Idle
    /\ logger = NoLogger

ListMovies ==
    /\ pc = "ready"
    /\ request.op = "listMovies"
    /\ \E getAllFails \in BOOLEAN, movies \in {[type |-> "slice"], [type |-> "chan"]} :
            LET r == listMoviesHandler(response, request.qs, getAllFails, movies) IN
                /\ response' = r.w
                /\ Errors' = r.errs
                /\ models' = r.models
    /\ pc' = "done"
    /\ UNCHANGED <<history, request, result, logger>>

\* The handler has returned: what it left behind.
Finish(r) ==
    /\ response' = r.w
    /\ Errors' = r.errs
    /\ models' = r.models
    /\ result' = r.movie
    /\ pc' = "done"
    /\ UNCHANGED <<history, request, logger>>

CreateMovie ==
    /\ pc = "ready"
    /\ request.op = "createMovie"
    /\ Finish(createMovieHandler(response, request.body, request.fields, request.env))

ShowMovie ==
    /\ pc = "ready"
    /\ request.op = "showMovie"
    /\ Finish(showMovieHandler(response, request.id, request.env))

UpdateMovie ==
    /\ pc = "ready"
    /\ request.op = "updateMovie"
    /\ Finish(updateMovieHandler(response, request.id, request.body, request.fields,
                                 request.env))

DeleteMovie ==
    /\ pc = "ready"
    /\ request.op = "deleteMovie"
    /\ Finish(deleteMovieHandler(response, request.id, request.env))

Next == ListMovies \/ CreateMovie \/ ShowMovie \/ UpdateMovie \/ DeleteMovie

Spec == Init /\ [][Next]_vars

\* The members of the sort safelist, as the handler's source lists them.
SafeSorts ==
    {<<"i", "d">>, <<"t", "i", "t", "l", "e">>, <<"y", "e", "a", "r">>,
     <<"r", "u", "n", "t", "i", "m", "e">>, <<"-", "i", "d">>,
     <<"-", "t", "i", "t", "l", "e">>, <<"-", "y", "e", "a", "r">>,
     <<"-", "r", "u", "n", "t", "i", "m", "e">>}

\* The raw sort string of a request: the query value, "id" when absent or empty.
RawSort(qs) ==
    IF qs.sort.present /\ qs.sort.value # << >> THEN qs.sort.value ELSE <<"i", "d">>

\* The failed-validation response carrying the errors map errs, and nothing else.
IsFailedValidationResponse(w, errs) ==
    /\ w.status = 422
    /\ w.body = <<[json |-> [k \in {"error"} |-> [type |-> "map", value |-> errs]]], "\n">>
    /\ Len(SelectSeq(w.log, LAMBDA e : e.call = "WriteHeader")) = 1

\* C1: Movies.GetAll is called only for a raw sort string that is a member
\* of the safelist, and is handed that string; for any other sort value the
\* handler sends the failed-validation response, with an error under
\* "sort", and makes no call on the store.
C1_GetAllOnlyForSafeSort ==
    pc = "done" /\ request.op = "listMovies" =>
        /\ \A i \in 1..Len(models) :
                /\ models[i].filters.Sort = RawSort(request.qs)
                /\ models[i].filters.Sort \in SafeSorts
        /\ RawSort(request.qs) \notin SafeSorts =>
                /\ models = << >>
                /\ "sort" \in DOMAIN Errors
                /\ IsFailedValidationResponse(response, Errors)

\* A sort value outside the safelist, with page and page_size valid, was
\* answered with the failed-validation response.
C1_Witness ==
    /\ pc = "done"
    /\ request.op = "listMovies"
    /\ request.qs.sort = Present(<<"i", "d", ";">>)
    /\ request.qs.page = Absent
    /\ request.qs.page_size = Present(<<"2", "0">>)
    /\ DOMAIN Errors = {"sort"}
    /\ response.status = 422
    /\ models = << >>

\* The value of an integer parameter is present and is not an integer.
Unparseable(p) == p.present /\ p.value # << >> /\ ~IntTextOf(p.value).isInt

\* The value of an integer parameter is an integer outside lo..hi.
OutOfRange(p, lo, hi) ==
    /\ p.present /\ p.value # << >> /\ IntTextOf(p.value).isInt
    /\ IntTextOf(p.value).n \notin lo..hi

\* The query parameters of a request that are invalid.
OffendingKeys(qs) ==
    {k \in {"page"} : Unparseable(qs.page) \/ OutOfRange(qs.page, 1, 10000000)}
        \cup {k \in {"page_size"} :
                Unparseable(qs.page_size) \/ OutOfRange(qs.page_size, 1, 100)}
        \cup {k \in {"sort"} : RawSort(qs) \notin SafeSorts}

\* C10: a request with invalid query parameters gets one failed-validation
\* response whose error map has an entry for each of them, however many
\* there are, and no call on the store; so a default that readInt
\* substituted after a parse failure never reaches GetAll: GetAll gets the
\* integers the client sent, or the defaults for parameters it left out.
C10_AllInvalidParametersReported ==
    pc = "done" /\ request.op = "listMovies" =>
        /\ OffendingKeys(request.qs) # {} =>
                /\ DOMAIN Errors = OffendingKeys(request.qs)
                /\ IsFailedValidationResponse(response, Errors)
                /\ models = << >>
        /\ (Unparseable(request.qs.page) \/ Unparseable(request.qs.page_size))
                => models = << >>
        /\ \A i \in 1..Len(models) :
                /\ models[i].filters.Page =
                        IF request.qs.page.present /\ request.qs.page.value # << >>
                        THEN IntTextOf(request.qs.page.value).n ELSE 1
                /\ models[i].filters.PageSize =
                        IF request.qs.page_size.present
                           /\ request.qs.page_size.value # << >>
                        THEN IntTextOf(request.qs.page_size.value).n ELSE 20

\* page and page_size were both not integers and sort was not in the
\* safelist: one response reported all three.
C10_Witness ==
    /\ pc = "done"
    /\ request.op = "listMovies"
    /\ request.qs.page = Present(<<"a", "b", "c">>)
    /\ request.qs.page_size = Present(<<"1", ".", "5">>)
    /\ request.qs.sort = Present(<<"I", "D">>)
    /\ DOMAIN Errors = {"page", "page_size", "sort"}
    /\ Errors["page"] = "must be an integer value"
    /\ Errors["page_size"] = "must be an integer value"
    /\ response.status = 422
    /\ models = << >>

\* The body is one JSON value that decodes, with at most whitespace around.
OneGoodValue(body) ==
    \E i \in 1..Len(body) :
        /\ body[i].kind = "ok"
        /\ \A j \in 1..Len(body) : j # i => body[j].kind = "ws"

\* The calls of a response writer's log that are WriteHeader, or Write.
WriteHeaderCalls(w) == SelectSeq(w.log, LAMBDA e : e.call = "WriteHeader")
WriteCalls(w) == SelectSeq(w.log, LAMBDA e : e.call = "Write")

\* The calls made on the store that are Insert, or Update.
InsertCalls == SelectSeq(models, LAMBDA c : c.call = "Insert")
UpdateCalls == SelectSeq(models, LAMBDA c : c.call = "Update")

\* The response is this status with this one-key envelope.
IsResponse(w, status, key, value) ==
    /\ w.status = status
    /\ w.body = <<[json |-> [k \in {key} |-> value]], "\n">>

\* C16: createMovieHandler calls Movies.Insert only after the body decoded
\* and ValidateMovie left the validator valid; a body that fails decoding
\* gets the 400 response and a movie that fails validation the 422 response
\* with the validator's errors, both without a call of Insert; and the 201
\* response, with the header Location: /v1/movies/<id> of the id Insert
\* gave the movie, is written only after Insert succeeded.
C16_InsertOnlyAfterDecodeAndValidation ==
    (pc = "done" /\ request.op = "createMovie") =>
        LET decoded == OneGoodValue(request.body)
            valid == request.env.invalid = {}
        IN  /\ InsertCalls # << >> => (decoded /\ valid /\ Valid(Errors))
            /\ ~decoded => (response.status = 400 /\ models = << >>)
            /\ (decoded /\ ~valid) =>
                    /\ IsFailedValidationResponse(response, Errors)
                    /\ DOMAIN Errors = request.env.invalid
                    /\ models = << >>
            /\ response.status = 201 =>
                    /\ Len(InsertCalls) = 1
                    /\ request.env.insert = "ok"
                    /\ DOMAIN response.sent = {"Location", "Content-Type"}
                    /\ response.sent["Location"] =
                            <<Sprintf("/v1/movies/%d", request.env.id)>>
                    /\ IsResponse(response, 201, "movie",
                                  [type |-> "struct", value |-> result])
                    /\ result.ID = request.env.id
            /\ (decoded /\ valid /\ request.env.insert = "ok"
                    /\ request.env.marshal = "ok") => response.status = 201

\* A movie was inserted under id 7 and the 201 response names it.
C16_Witness ==
    /\ pc = "done"
    /\ request.op = "createMovie"
    /\ request.fields.title = FieldValue("Moana")
    /\ response.status = 201
    /\ response.sent["Location"] = <<Sprintf("/v1/movies/%d", 7)>>
    /\ Len(InsertCalls) = 1

\* The status updateMovieHandler answers a request with: that of the first
\* step to fail, in the order id, Get, decode, validation, Update, writing.
UpdateStatus(req) ==
    IF req.id # <<"5">> THEN 404
    ELSE IF req.env.get = "ErrRecordNotFound" THEN 404
    ELSE IF req.env.get # "ok" THEN 500
    ELSE IF ~OneGoodValue(req.body) THEN 400
    ELSE IF req.env.invalid # {} THEN 422
    ELSE IF req.env.update = "ErrEditConflict" THEN 409
    ELSE IF req.env.update # "ok" THEN 500
    ELSE IF req.env.marshal # "ok" THEN 500
    ELSE 200

\* C11: the response of updateMovieHandler is that of the first failing
\* step in the order id parse (404), Get (404 or 500), decode (400),
\* validation (422), Update (409 or 500); the 200 response with the movie
\* is written only when every step succeeded; and Update is not called
\* after a decode or validation failure, nor Get after a bad id.
C11_FirstFailingStepDecides ==
    (pc = "done" /\ request.op = "updateMovie") =>
        /\ response.status = UpdateStatus(request)
        /\ Len(WriteHeaderCalls(response)) = 1
        /\ response.status = 200 =>
                /\ IsResponse(response, 200, "movie",
                              [type |-> "struct", value |-> result])
                /\ Len(models) = 2
                /\ models[1].call = "Get"
                /\ models[2] = [call |-> "Update", movie |-> result]
        /\ response.status \in {400, 422} =>
                (Len(models) = 1 /\ models[1].call = "Get")
        /\ response.status = 422 => IsFailedValidationResponse(response, Errors)
        /\ request.id # <<"5">> => models = << >>
        /\ UpdateCalls # << >> =>
                (OneGoodValue(request.body) /\ request.env.invalid = {})

\* Validation failed for a request whose Update would have met an edit
\* conflict: the answer is 422 and Update was not called.
C11_Witness ==
    /\ pc = "done"
    /\ request.op = "updateMovie"
    /\ request.env.get = "ok"
    /\ request.env.invalid = {"title"}
    /\ request.env.update = "ErrEditConflict"
    /\ response.status = 422
    /\ UpdateCalls = << >>

\* C12: once the movie is fetched and the body decoded, each of title,
\* year, runtime and genres of the movie is the value the body gives the
\* field, its zero value included, and the value fetched from the store
\* when the body leaves the field out (or gives null); nothing else of the
\* movie changes, and this movie is the one handed to Update.
C12_PartialUpdate ==
    (/\ pc = "done"
     /\ request.op = "updateMovie"
     /\ request.id = <<"5">>
     /\ request.env.get = "ok"
     /\ OneGoodValue(request.body)) =>
        LET stored == StoredMovie(5)
            f == request.fields
        IN  /\ result.Title = (IF f.title.kind = "value" THEN f.title.value
                               ELSE stored.Title)
            /\ result.Year = (IF f.year.kind = "value" THEN f.year.value
                              ELSE stored.Year)
            /\ result.Runtime = (IF f.runtime.kind = "value" THEN f.runtime.value
                                 ELSE stored.Runtime)
            /\ result.Genres = (IF f.genres.kind = "value"
                                THEN [nil |-> FALSE, elems |-> f.genres.value]
                                ELSE stored.Genres)
            /\ result.ID = stored.ID
            /\ result.Version = stored.Version
            /\ \A i \in 1..Len(UpdateCalls) : UpdateCalls[i].movie = result

\* An empty title, a year of 0 and an empty genres list were applied, and
\* the runtime the body left out is the stored one.
C12_Witness ==
    /\ pc = "done"
    /\ request.op = "updateMovie"
    /\ request.fields.title = FieldValue("")
    /\ request.fields.year = FieldValue(0)
    /\ request.fields.runtime = FieldAbsent
    /\ request.fields.genres = FieldValue(<< >>)
    /\ Len(UpdateCalls) = 1
    /\ UpdateCalls[1].movie.Title = ""
    /\ UpdateCalls[1].movie.Year = 0
    /\ UpdateCalls[1].movie.Runtime = 102
    /\ UpdateCalls[1].movie.Genres = [nil |-> FALSE, elems |-> << >>]

HandlerOps == {"createMovie", "showMovie", "updateMovie", "deleteMovie", "listMovies"}

\* C17: a handler that has returned has sent exactly one response: one
\* status line and one body, a single JSON document, on every path, the
\* path of a writeJSON that failed included, where the one response is
\* the server error's.
C17_ExactlyOneResponse ==
    (pc = "done" /\ request.op \in HandlerOps) =>
        /\ Len(WriteHeaderCalls(response)) = 1
        /\ Len(WriteCalls(response)) = 1
        /\ response.wroteHeader
        /\ response.status = WriteHeaderCalls(response)[1].status
        /\ Len(response.body) = 2
        /\ response.sent["Content-Type"] = <<"application/json">>

\* writeJSON failed on the movie of showMovieHandler, and the one response
\* is the server error's.
C17_Witness ==
    /\ pc = "done"
    /\ request.op = "showMovie"
    /\ request.id = <<"5">>
    /\ request.env.get = "ok"
    /\ request.env.marshal = "error"
    /\ response.status = 500
    /\ Len(WriteHeaderCalls(response)) = 1
    /\ Len(WriteCalls(response)) = 1

(***************************************************************************)
(* package jsonlog: goroutines calling the print methods of one Logger     *)
(*                                                                         *)
(* logger.mu is 0 when the mutex is free and the goroutine that holds it   *)
(* otherwise; logger.out lists the writes that returned, in order;         *)
(* logger.g[g] is the call goroutine g is in and where it stands in        *)
(* print; logger.exited is set once os.Exit was called.                    *)
(***************************************************************************)
NumGoroutines == 2  \* goroutines that call the Logger, one call each

Goroutines == 1..NumGoroutines

LevelInfo == 0
LevelError == 1
LevelFatal == 2
LevelOff == 3

\* The exported methods and the level each hands to print.
LogMethods == {"PrintInfo", "PrintError", "PrintFatal", "Write"}
LevelOf(method) ==
    CASE method = "PrintInfo" -> LevelInfo
      [] method = "PrintError" -> LevelError
      [] method = "PrintFatal" -> LevelFatal
      [] OTHER -> LevelError

\* jsonlog.New(out, minLevel), and goroutines that have not called it yet.
InitLogger ==
    /\ pc = "ready"
    /\ Errors = New
    /\ history = << >>
    /\ request = Idle
    /\ response = NoResponse
    /\ models = << >>
    /\ result = Idle
    /\ logger \in [minLevel : {LevelInfo, LevelError, LevelFatal, LevelOff},
                   mu : {0}, out : {<< >>}, exited : {FALSE},
                   g : {[g \in Goroutines |-> [pc |-> "idle", method |-> "none"]]}]

\* Goroutine g moves to pc, the rest of the logger changed as given.
LoggerAt(l, g, at) == [l EXCEPT !.g[g].pc = at]

\* g calls a print method: print returns at once below minLevel, and
\* otherwise builds the line and goes for the mutex.
LoggerCall(g) ==
    /\ ~logger.exited
    /\ logger.g[g].pc = "idle"
    /\ \E method \in LogMethods :
            logger' = [logger EXCEPT
                          !.g[g] = [pc |-> IF LevelOf(method) < logger.minLevel
                                           THEN "returned" ELSE "lock",
                                    method |-> method]]
    /\ UNCHANGED <<pc, Errors, history, request, response, models, result>>

\* A faulty print that writes without taking the mutex.
LoggerLockNoMutex(g) ==
    /\ ~logger.exited
    /\ logger.g[g].pc = "lock"
    /\ logger' = LoggerAt(logger, g, "write")
    /\ UNCHANGED <<pc, Errors, history, request, response, models, result>>

\* l.mu.Lock()
LoggerLock(g) ==
    /\ ~logger.exited
    /\ logger.g[g].pc = "lock"
    /\ logger.mu = 0
    /\ logger' = LoggerAt([logger EXCEPT !.mu = g], g, "write")
    /\ UNCHANGED <<pc, Errors, history, request, response, models, result>>

\* l.out.Write(...) is entered.
LoggerWriteBegin(g) ==
    /\ ~logger.exited
    /\ logger.g[g].pc = "write"
    /\ logger' = LoggerAt(logger, g, "writing")
    /\ UNCHANGED <<pc, Errors, history, request, response, models, result>>

\* l.out.Write(...) returns, with or without an error.
LoggerWriteEnd(g) ==
    /\ ~logger.exited
    /\ logger.g[g].pc = "writing"
    /\ \E ok \in BOOLEAN :
            logger' = LoggerAt([logger EXCEPT !.out = Append(@, [g |-> g, ok |-> ok])],
                               g, "unlock")
    /\ UNCHANGED <<pc, Errors, history, request, response, models, result>>

\* The deferred l.mu.Unlock(), as print returns.
LoggerUnlock(g) ==
    /\ ~logger.exited
    /\ logger.g[g].pc = "unlock"
    /\ logger' = LoggerAt([logger EXCEPT !.mu = 0], g, "returned")
    /\ UNCHANGED <<pc, Errors, history, request, response, models, result>>

\* The method returns to its caller; PrintFatal calls os.Exit(1) instead.
LoggerReturn(g) ==
    /\ ~logger.exited
    /\ logger.g[g].pc = "returned"
    /\ logger' = LoggerAt([logger EXCEPT
                              !.exited = (logger.g[g].method = "PrintFatal")],
                          g, "done")
    /\ UNCHANGED <<pc, Errors, history, request, response, models, result>>

\* The steps of g inside a call it has made.
LoggerStep(g) ==
    \/ LoggerLock(g)
    \/ LoggerWriteBegin(g)
    \/ LoggerWriteEnd(g)
    \/ LoggerUnlock(g)
    \/ LoggerReturn(g)

NextLogger == \E g \in Goroutines : LoggerCall(g) \/ LoggerStep(g)

\* A goroutine that can take a step is scheduled in the end, and the
\* output destination returns from Write.
SpecLogger ==
    /\ InitLogger
    /\ [][NextLogger]_vars
    /\ \A g \in Goroutines : WF_vars(LoggerStep(g))

\* g is inside the write to the output destination.
LoggerWriting(g) == logger.g[g].pc = "writing"

\* g is in a call at or above minLevel that has not written yet.
LoggerPending(g) == logger.g[g].pc \in {"lock", "write", "writing"}

\* The write of g's call has returned.
LoggerWrote(g) == \E i \in 1..Len(logger.out) : logger.out[i].g = g

\* At most one goroutine is inside the write, and it holds the mutex.
LoggerWritesExclusive ==
    \A g, h \in Goroutines :
        LoggerWriting(g) => logger.mu = g /\ (LoggerWriting(h) => g = h)

\* A goroutine whose call has returned does not hold the mutex.
LoggerMutexReleased ==
    \A g \in Goroutines :
        logger.g[g].pc \in {"idle", "lock", "returned", "done"} => logger.mu # g

\* C13 as stated: writes never overlap, the mutex is released after every
\* write, and every call at or above minLevel completes its write.
C13_EveryCallWrites ==
    /\ []LoggerWritesExclusive
    /\ []LoggerMutexReleased
    /\ \A g \in Goroutines : LoggerPending(g) ~> LoggerWrote(g)

\* C13 as amended: writes never overlap, the mutex is released after every
\* write, and every call at or above minLevel completes its write unless
\* the process exits first.
C13_EveryCallWritesUnlessExit ==
    /\ []LoggerWritesExclusive
    /\ []LoggerMutexReleased
    /\ \A g \in Goroutines : LoggerPending(g) ~> (LoggerWrote(g) \/ logger.exited)

\* Two calls wrote one after the other, the first write having failed.
C13_Witness ==
    /\ Len(logger.out) = 2
    /\ logger.out[1].g # logger.out[2].g
    /\ ~logger.out[1].ok
    /\ logger.mu = 0
    /\ ~logger.exited

====
